---- MODULE Spec2Model ----
(***************************************************************************)
(* The AGQ orchestrator (agq/src/orchestrator.rs) over its key-value       *)
(* store.  Every storage primitive (get, set, lpush) is one atomic step;   *)
(* a call of submit_jobs, complete_job or fail_job is a sequence of such   *)
(* steps, so that calls running at the same time interleave between their  *)
(* storage accesses.  Spec lets up to MaxConcurrent calls run at once;     *)
(* SpecSeq runs one call at a time (the synchronous dispatch of one        *)
(* request after the other).  The store is the always-available service    *)
(* the orchestrator assumes: get, set and lpush themselves never fail, so  *)
(* the only error a call returns is "Job not found".                       *)
(*                                                                         *)
(* SpecWorker adds one worker (agw/src/worker.rs): the main loop of        *)
(* Worker::run with its biased select!, fetch_job, and the executions it   *)
(* spawns (handle_task_execution), against a server that serves one        *)
(* request at a time and hands every posted result to the orchestrator.    *)
(* A step of the loop is one suspension point.  When select! drops a       *)
(* pending fetch_job, a blocking move the server has not carried out yet   *)
(* is dropped with it; one it has carried out stays carried out.           *)
(*                                                                         *)
(* SpecExec is execute_plan (agw/src/executor.rs) on every plan of a       *)
(* bounded set, one turn of its loop per step, with every outcome the      *)
(* sandbox can give to a task: an exit code, an error of the sandbox, or   *)
(* the timeout of the task elapsing.                                       *)
(*                                                                         *)
(* SpecClient is the reply parsing of AgqClient::submit_plan               *)
(* (agx/src/client.rs) on every reply of a bounded set; SpecRoundTrip is   *)
(* save_job followed by get_job on every job of a bounded set.  SpecRace   *)
(* starts where submit_jobs has returned and runs complete_job calls at    *)
(* the same time.  SpecLive is the worker on a submitted batch with no     *)
(* signal delivered, under the fairness of the runtime: the loop, the      *)
(* executions and the server go on when they can, and a blocking pop on a  *)
(* list that is not empty is served.                                       *)
(***************************************************************************)
EXTENDS Integers, Sequences, FiniteSets, TLC

\* ---- bounds of the model ----
NumJobs == 3
MaxCalls == 3
MaxConcurrent == 2
\* The heartbeat ticks and the signals of one run of the worker.
MaxTicks == 2
MaxSignals == 1
\* The tasks of one plan.
MaxTasks == 3
\* The exit code of a command that fails.
NonZeroCode == 42
\* The length of the payload of a reply.
MaxLen == 3
\* The decimal digits of a declared length.
Digits == <<"0", "1", "2", "3", "4", "5", "6", "7", "8", "9">>

JobIds == 1..NumJobs
Slots == 1..MaxConcurrent
\* The exit codes the operations are called with (a payload the orchestrator
\* stores and never reads): complete_job for a task
\* that succeeded, fail_job for one that did not.
CompleteCodes == {0}

FailCodes == {1}
\* The reading of the clock.  The orchestrator writes it and never reads it back.
Timestamps == {1}
TagChoices == {<<>>, <<"linux", "gpu">>}

\* ---- agq/src/job.rs ----
JobStatus == {"Pending", "Ready", "Running", "Completed", "Failed", "Cancelled"}

is_terminal(status) == status \in {"Completed", "Failed", "Cancelled"}

\* Option<T>: None is the empty sequence, Some(v) is <<v>>.
None == <<>>

Some(v) == <<v>>

\* The absence of a record: db.get returns None, get_job the error "Job not found".
NoJob == [absent |-> TRUE]

\* Job::new: status Pending, empty dependency sets, no worker, no start or
\* completion time, no exit code.  The fields the orchestrator never reads
\* (action_id, plan_id, task_number, command, args, env, created_at) are
\* the same for every job the operations are given.
Job_new(id, tags) ==
    [id |-> id, action_id |-> "action", plan_id |-> "plan", task_number |-> 1,
     command |-> "sh", args |-> <<>>, env |-> "{}",
     status |-> "Pending", dependencies |-> {}, dependents |-> {},
     worker_id |-> None, created_at |-> 0, started_at |-> None,
     completed_at |-> None, exit_code |-> None, tags |-> tags]

\* ---- serde: #[serde(rename_all = "lowercase")] on JobStatus; Option as null ----
serde_status ==
    [s \in JobStatus |->
        CASE s = "Pending" -> "pending"
          [] s = "Ready" -> "ready"
          [] s = "Running" -> "running"
          [] s = "Completed" -> "completed"
          [] s = "Failed" -> "failed"
          [] s = "Cancelled" -> "cancelled"]

serde_option(v) == IF v = None THEN [null |-> TRUE] ELSE [value |-> v[1]]

\* A HashSet is written as a JSON array of its elements, in some order, and
\* read back as the set of the elements of the array.
RECURSIVE serde_set(_)
serde_set(set) ==
    IF set = {} THEN <<>>
    ELSE LET least == CHOOSE x \in set : \A y \in set : x <= y
         IN  <<least>> \o serde_set(set \ {least})

serde_set_back(array) == {array[i] : i \in DOMAIN array}

serde_option_back(j) == IF "null" \in DOMAIN j THEN None ELSE Some(j.value)

\* A serialization that leaves the dependents out (#[serde(skip)]).
to_json_skip_dependents(job) ==
    [id |-> job.id, action_id |-> job.action_id, plan_id |-> job.plan_id,
     task_number |-> job.task_number, command |-> job.command,
     args |-> job.args, env |-> job.env,
     status |-> serde_status[job.status],
     dependencies |-> serde_set(job.dependencies), dependents |-> <<>>,
     worker_id |-> serde_option(job.worker_id),
     created_at |-> job.created_at,
     started_at |-> serde_option(job.started_at),
     completed_at |-> serde_option(job.completed_at),
     exit_code |-> serde_option(job.exit_code), tags |-> job.tags]

to_json(job) ==
    [id |-> job.id, action_id |-> job.action_id, plan_id |-> job.plan_id,
     task_number |-> job.task_number, command |-> job.command,
     args |-> job.args, env |-> job.env,
     status |-> serde_status[job.status],
     dependencies |-> serde_set(job.dependencies),
     dependents |-> serde_set(job.dependents),
     worker_id |-> serde_option(job.worker_id),
     created_at |-> job.created_at,
     started_at |-> serde_option(job.started_at),
     completed_at |-> serde_option(job.completed_at),
     exit_code |-> serde_option(job.exit_code), tags |-> job.tags]

\* A reading that takes a null exit code for the code 0.
from_json_null_is_zero(json) ==
    [id |-> json.id, action_id |-> json.action_id, plan_id |-> json.plan_id,
     task_number |-> json.task_number, command |-> json.command,
     args |-> json.args, env |-> json.env,
     status |-> CHOOSE s \in JobStatus : serde_status[s] = json.status,
     dependencies |-> serde_set_back(json.dependencies),
     dependents |-> serde_set_back(json.dependents),
     worker_id |-> serde_option_back(json.worker_id),
     created_at |-> json.created_at,
     started_at |-> serde_option_back(json.started_at),
     completed_at |-> serde_option_back(json.completed_at),
     exit_code |-> IF "null" \in DOMAIN json.exit_code THEN Some(0)
                   ELSE Some(json.exit_code.value),
     tags |-> json.tags]

from_json(json) ==
    [id |-> json.id, action_id |-> json.action_id, plan_id |-> json.plan_id,
     task_number |-> json.task_number, command |-> json.command,
     args |-> json.args, env |-> json.env,
     status |-> CHOOSE s \in JobStatus : serde_status[s] = json.status,
     dependencies |-> serde_set_back(json.dependencies),
     dependents |-> serde_set_back(json.dependents),
     worker_id |-> serde_option_back(json.worker_id),
     created_at |-> json.created_at,
     started_at |-> serde_option_back(json.started_at),
     completed_at |-> serde_option_back(json.completed_at),
     exit_code |-> serde_option_back(json.exit_code), tags |-> json.tags]

\* ---- storage helpers of the orchestrator ----
\* The store maps the key job:<id> to the JSON of the job, or to NoJob.
\* A save_job whose write is lost.
save_job_lost(st, job) == st

save_job(st, job) == [st EXCEPT ![job.id] = to_json(job)]

\* A get_job that makes up a fresh job when the key is missing.
get_job_or_default(st, job_id) ==
    IF st[job_id] = NoJob THEN Job_new(job_id, <<>>) ELSE from_json(st[job_id])

\* get_job: the job under job:<id>, or NoJob for the error "Job not found".
get_job(st, job_id) == IF st[job_id] = NoJob THEN NoJob ELSE from_json(st[job_id])

Contains(seq, x) == \E i \in 1..Len(seq) : seq[i] = x

\* A routing that looks at the first tag only.
queue_name_first_tag(job) ==
    IF job.tags # <<>> /\ job.tags[1] = "gpu" THEN "queue:gpu" ELSE "queue:default"

queue_name(job) == IF Contains(job.tags, "gpu") THEN "queue:gpu" ELSE "queue:default"

QueueNames == {"queue:default", "queue:gpu"}

lpush(qs, name, value) == [qs EXCEPT ![name] = <<value>> \o @]

\* ---- the statements of each operation, in source order ----
\* complete_job without the call of trigger_dependents.
complete_job_body_no_trigger == <<"get_job", "save_job">>

\* complete_job that triggers the dependents before it saves the job.
complete_job_body_trigger_first == <<"get_job", "trigger_dependents", "save_job">>

complete_job_body == <<"get_job", "save_job", "trigger_dependents">>

\* fail_job that goes on to trigger the dependents, as complete_job does.
fail_job_body_cascade == <<"get_job", "save_job", "trigger_dependents">>

fail_job_body == <<"get_job", "save_job">>

\* enqueue_job without the push of the id.
enqueue_job_body_no_push == <<"enqueue_save">>

enqueue_job_body == <<"enqueue_save", "enqueue_lpush">>

BodyOf(op) == IF op = "complete_job" THEN complete_job_body ELSE fail_job_body

StmtAfter(body, s) ==
    IF \E i \in 1..(Len(body) - 1) : body[i] = s
    THEN body[(CHOOSE i \in 1..(Len(body) - 1) : body[i] = s) + 1]
    ELSE "return"

VARIABLES store, queues, calls, ret, issued, ncalls, failedSeen

\* The worker (agw/src/worker.rs) and its side of the server: the processing
\* list, the state of the main loop, the spawned executions, the heartbeat
\* timer and the signals delivered to the process.
VARIABLES processing, worker, tasks, timer, signals

wvars == <<processing, worker, tasks, timer, signals>>

\* The executor (agw/src/executor.rs): the plan handed to execute_plan, the
\* position and locals of the call, and what the sandbox was run with.
VARIABLES plan, exec, sandbox_log

xvars == <<plan, exec, sandbox_log>>

\* The client of the planner (agx/src/client.rs): the reply the server sent
\* to PLAN.SUBMIT and what submit_plan returned for it.
VARIABLES reply, parsed

cvars == <<reply, parsed>>

\* A job handed to save_job and what get_job read back for its id.
VARIABLES job_in, job_out

rvars == <<job_in, job_out>>

vars ==
    <<store, queues, calls, ret, issued, ncalls, failedSeen, wvars, xvars, cvars, rvars>>

\* A slot with no call in it.
Idle ==
    [op |-> "idle", pc |-> "idle", jobs |-> <<>>, i |-> 0, ready_jobs |-> <<>>,
     job_id |-> 0, exit_code |-> 0, job |-> NoJob, todo |-> {},
     saved |-> FALSE, dependent |-> NoJob, deps_left |-> {}, enq |-> NoJob]

\* ret holds the operation and the result of the call that returned last; it
\* is cleared when the next call starts.  failedSeen is a history variable:
\* the ids fail_job has written as Failed so far.
NoReturn == [op |-> "none", result |-> "none"]

Quiescent == \A c \in Slots : calls[c] = Idle

\* Worker::run before its first statement: no job in flight, shutdown not
\* requested, no fetch pending.
NewWorker ==
    [pc |-> "start", result |-> "none", shutdown_requested |-> FALSE,
     current_job |-> None, fetch |-> "disabled", job_id_raw |-> 0,
     forced |-> FALSE, panic_logged |-> FALSE]

\* execute_plan before its first statement: no result yet, no output kept.
NoResult == [absent |-> TRUE]

NewExec ==
    [pc |-> "loop", i |-> 1, task_results |-> <<>>, previous_outputs |-> <<>>,
     result |-> "none", plan_result |-> NoResult]

\* The server and the worker after construction.
InitAgqAgw ==
    /\ store = [id \in JobIds |-> NoJob]
    /\ queues = [q \in QueueNames |-> <<>>]
    /\ calls = [c \in Slots |-> Idle]
    /\ ret = NoReturn
    /\ issued = 0
    /\ ncalls = 0
    /\ failedSeen = {}
    /\ processing = <<>>
    /\ worker = NewWorker
    /\ tasks = <<>>
    /\ timer = [pending |-> FALSE, ticks |-> 0, since |-> 0]
    /\ signals = [sigterm |-> FALSE, sigint |-> FALSE, sent |-> 0]

\* submit_plan has not returned.
NoParse == [absent |-> TRUE]

NoReply == [kind |-> "none", payload |-> <<>>, bytes |-> <<>>]

\* No plan is executed, no reply is parsed, no job is round-tripped.
InitExecIdle ==
    /\ plan = <<>>
    /\ exec = NewExec
    /\ sandbox_log = <<>>

InitClientIdle ==
    /\ reply = NoReply
    /\ parsed = NoParse

InitRoundTripIdle ==
    /\ job_in = NoJob
    /\ job_out = NoJob

Init ==
    /\ InitExecIdle
    /\ InitClientIdle
    /\ InitRoundTripIdle
    /\ InitAgqAgw

\* The call in slot c goes on at statement pc, or returns.
Goto(c, call, pc, result) ==
    IF pc = "return"
    THEN /\ calls' = [calls EXCEPT ![c] = Idle]
         /\ ret' = [op |-> call.op, result |-> result]
    ELSE /\ calls' = [calls EXCEPT ![c] = [call EXCEPT !.pc = pc]]
         /\ ret' = ret

FreeSlot(c) ==
    /\ calls[c] = Idle
    /\ \A d \in Slots : d < c => calls[d] # Idle
    /\ ncalls < MaxCalls

\* ---- the jobs of one submission ----
\* The caller derives the jobs of a batch from one Plan: fresh ids in task
\* order, every dependency an earlier job of the same batch, dependents the
\* reverse of dependencies.
Batch(first, k, depsOf, tagsOf) ==
    [n \in 1..k |->
        [Job_new(first + n - 1, tagsOf[n]) EXCEPT
            !.dependencies = {first + m - 1 : m \in depsOf[n]},
            !.dependents = {first + m - 1 : m \in {x \in 1..k : n \in depsOf[x]}}]]

Batches(first, k) ==
    {Batch(first, k, depsOf, tagsOf) :
        depsOf \in {f \in [1..k -> SUBSET (1..k)] : \A n \in 1..k : \A m \in f[n] : m < n},
        tagsOf \in [1..k -> TagChoices]}

\* ---- submit_jobs ----
CallSubmitJobs(c) ==
    /\ FreeSlot(c)
    /\ \E k \in 1..(NumJobs - issued) :
         \E jobs \in Batches(issued + 1, k) :
            /\ calls' = [calls EXCEPT ![c] =
                            [Idle EXCEPT !.op = "submit_jobs", !.pc = "save_job",
                                         !.jobs = jobs, !.i = 1]]
            /\ issued' = issued + k
    /\ ncalls' = ncalls + 1
    /\ ret' = NoReturn
    /\ UNCHANGED <<store, queues, failedSeen, wvars, xvars, cvars, rvars>>

\* A submit_jobs that queues the ready jobs it has so far after each save.
first_loop_done_each_turn(call) == TRUE

\* The loop over jobs has saved its last job: the loop over ready_jobs starts.
first_loop_done(call) == call.i >= Len(call.jobs)

\* for job in jobs { save_job(&job)?; if job.dependencies.is_empty() { ready_jobs.push(job) } }
\* and, after the last job, the first turn of the loop over ready_jobs.
SubmitSave(c) ==
    LET call == calls[c]
        job == call.jobs[call.i]
        ready == IF job.dependencies = {} THEN Append(call.ready_jobs, job)
                 ELSE call.ready_jobs
    IN  /\ call.op = "submit_jobs"
        /\ call.pc = "save_job"
        /\ store' = save_job(store, job)
        /\ IF ~first_loop_done(call)
           THEN Goto(c, [call EXCEPT !.i = call.i + 1, !.ready_jobs = ready],
                     "save_job", "ok")
           ELSE IF ready = <<>>
                THEN Goto(c, call, "return", "ok")
                ELSE Goto(c, [call EXCEPT !.ready_jobs = Tail(ready), !.enq = Head(ready)],
                          enqueue_job_body[1], "ok")
        /\ UNCHANGED <<queues, issued, ncalls, failedSeen, wvars, xvars, cvars, rvars>>

\* ---- enqueue_job ----
\* Where the caller of enqueue_job goes on when enqueue_job has returned.
AfterEnqueue(c, call) ==
    IF call.op = "submit_jobs"
    THEN IF call.ready_jobs = <<>>
         THEN Goto(c, call, "return", "ok")
         ELSE Goto(c, [call EXCEPT !.ready_jobs = Tail(call.ready_jobs),
                                   !.enq = Head(call.ready_jobs)],
                   enqueue_job_body[1], "ok")
    ELSE LET back == [call EXCEPT !.dependent = NoJob, !.deps_left = {}, !.enq = NoJob]
         IN  IF call.todo = {}
             THEN Goto(c, back, StmtAfter(BodyOf(call.op), "trigger_dependents"), "ok")
             ELSE Goto(c, back, "trigger_dependents", "ok")

EnqueueNext(c, call, stmt) ==
    IF StmtAfter(enqueue_job_body, stmt) = "return"
    THEN AfterEnqueue(c, call)
    ELSE Goto(c, call, StmtAfter(enqueue_job_body, stmt), "ok")

\* An enqueue that hands on a job without its tags.
mark_ready_drops_tags(job) == [job EXCEPT !.status = "Ready", !.tags = <<>>]

\* let mut job = job.clone(); job.status = JobStatus::Ready
mark_ready(job) == [job EXCEPT !.status = "Ready"]

\* job.status = JobStatus::Ready; self.save_job(&job)?
EnqueueSave(c) ==
    LET call == calls[c]
        job == mark_ready(call.enq)
    IN  /\ call.pc = "enqueue_save"
        /\ store' = save_job(store, job)
        /\ EnqueueNext(c, [call EXCEPT !.enq = job], "enqueue_save")
        /\ UNCHANGED <<queues, issued, ncalls, failedSeen, wvars, xvars, cvars, rvars>>

\* self.db.lpush(queue_name, job.id.as_bytes())?
EnqueuePush(c) ==
    LET call == calls[c]
    IN  /\ call.pc = "enqueue_lpush"
        /\ queues' = lpush(queues, queue_name(call.enq), call.enq.id)
        /\ EnqueueNext(c, call, "enqueue_lpush")
        /\ UNCHANGED <<store, issued, ncalls, failedSeen, wvars, xvars, cvars, rvars>>

\* ---- complete_job and fail_job ----
CallCompleteJob(c) ==
    /\ FreeSlot(c)
    /\ \E job_id \in JobIds, exit_code \in CompleteCodes :
         calls' = [calls EXCEPT ![c] =
                      [Idle EXCEPT !.op = "complete_job", !.pc = complete_job_body[1],
                                   !.job_id = job_id, !.exit_code = exit_code]]
    /\ ncalls' = ncalls + 1
    /\ ret' = NoReturn
    /\ UNCHANGED <<store, queues, issued, failedSeen, wvars, xvars, cvars, rvars>>

CallFailJob(c) ==
    /\ FreeSlot(c)
    /\ \E job_id \in JobIds, exit_code \in FailCodes :
         calls' = [calls EXCEPT ![c] =
                      [Idle EXCEPT !.op = "fail_job", !.pc = fail_job_body[1],
                                   !.job_id = job_id, !.exit_code = exit_code]]
    /\ ncalls' = ncalls + 1
    /\ ret' = NoReturn
    /\ UNCHANGED <<store, queues, issued, failedSeen, wvars, xvars, cvars, rvars>>

\* The statement after stmt in the body of the call; a loop over an empty
\* dependents set is passed over.
StmtNext(call, stmt) ==
    LET nxt == StmtAfter(BodyOf(call.op), stmt)
    IN  IF nxt = "trigger_dependents" /\ call.todo = {}
        THEN StmtAfter(BodyOf(call.op), nxt)
        ELSE nxt

\* let mut job = self.get_job(job_id)?
GetStep(c, op) ==
    LET call == calls[c]
        job == get_job(store, call.job_id)
    IN  /\ call.op = op
        /\ call.pc = "get_job"
        /\ IF job = NoJob
           THEN Goto(c, call, "return", "err")
           ELSE LET loaded == [call EXCEPT !.job = job, !.todo = job.dependents]
                IN  Goto(c, loaded, StmtNext(loaded, "get_job"), "ok")
        /\ UNCHANGED <<store, queues, issued, ncalls, failedSeen, wvars, xvars, cvars, rvars>>

\* job.status = ...; job.completed_at = Some(now); job.exit_code = Some(exit_code);
\* self.save_job(&job)?
SaveStep(c, op, status) ==
    LET call == calls[c]
    IN  /\ call.op = op
        /\ call.pc = "save_job"
        /\ \E now \in Timestamps :
             LET job == [call.job EXCEPT !.status = status, !.completed_at = Some(now),
                                        !.exit_code = Some(call.exit_code)]
                 saved == [call EXCEPT !.job = job, !.saved = TRUE]
             IN  /\ store' = save_job(store, job)
                 /\ Goto(c, saved, StmtNext(saved, "save_job"), "ok")
        /\ failedSeen' = IF status = "Failed" THEN failedSeen \cup {call.job_id}
                         ELSE failedSeen
        /\ UNCHANGED <<queues, issued, ncalls, wvars, xvars, cvars, rvars>>

CompleteGet(c) == GetStep(c, "complete_job")

CompleteSave(c) == SaveStep(c, "complete_job", "Completed")

FailGet(c) == GetStep(c, "fail_job")

FailSave(c) == SaveStep(c, "fail_job", "Failed")

\* ---- trigger_dependents ----
\* A trigger_dependents that evaluates every dependent, whatever its status.
skip_dependent_never(dependent) == FALSE

\* if dependent.status != JobStatus::Pending { continue; }
skip_dependent(dependent) == dependent.status # "Pending"

\* One turn of `for dependent_id in &completed_job.dependents`: the load of
\* the dependent and the test of its status.  A HashSet is iterated in an
\* order the program does not fix.
TriggerNext(c) ==
    LET call == calls[c]
    IN  /\ call.pc = "trigger_dependents"
        /\ \E dependent_id \in call.todo :
             LET dependent == get_job(store, dependent_id)
                 rest == [call EXCEPT !.todo = call.todo \ {dependent_id}]
             IN  IF dependent = NoJob
                 THEN Goto(c, call, "return", "err")
                 ELSE IF skip_dependent(dependent)
                 THEN AfterEnqueue(c, rest)
                 ELSE IF dependent.dependencies = {}
                 THEN Goto(c, [rest EXCEPT !.enq = dependent], enqueue_job_body[1], "ok")
                 ELSE Goto(c, [rest EXCEPT !.dependent = dependent,
                                           !.deps_left = dependent.dependencies],
                           "check_dependencies_met", "ok")
        /\ UNCHANGED <<store, queues, issued, ncalls, failedSeen, wvars, xvars, cvars, rvars>>

\* ---- check_dependencies_met ----
\* One turn of `for dep_id in &job.dependencies`.
CheckDep(c) ==
    LET call == calls[c]
    IN  /\ call.pc = "check_dependencies_met"
        /\ \E dep_id \in call.deps_left :
             LET dep == get_job(store, dep_id)
                 left == call.deps_left \ {dep_id}
             IN  IF dep = NoJob
                 THEN Goto(c, call, "return", "err")
                 ELSE IF dep.status # "Completed"
                 THEN AfterEnqueue(c, call)
                 ELSE IF left = {}
                 THEN Goto(c, [call EXCEPT !.deps_left = {}, !.enq = call.dependent],
                           enqueue_job_body[1], "ok")
                 ELSE Goto(c, [call EXCEPT !.deps_left = left],
                           "check_dependencies_met", "ok")
        /\ UNCHANGED <<store, queues, issued, ncalls, failedSeen, wvars, xvars, cvars, rvars>>

Step(c) ==
    \/ SubmitSave(c)
    \/ EnqueueSave(c)
    \/ EnqueuePush(c)
    \/ CompleteGet(c)
    \/ CompleteSave(c)
    \/ FailGet(c)
    \/ FailSave(c)
    \/ TriggerNext(c)
    \/ CheckDep(c)

Next ==
    \E c \in Slots :
        \/ CallSubmitJobs(c)
        \/ CallCompleteJob(c)
        \/ CallFailJob(c)
        \/ Step(c)

Spec == Init /\ [][Next]_vars

\* One call at a time: a call starts only when no call is in progress.
NextSeq ==
    \E c \in Slots :
        \/ Quiescent /\ CallSubmitJobs(c)
        \/ Quiescent /\ CallCompleteJob(c)
        \/ Quiescent /\ CallFailJob(c)
        \/ Step(c)

SpecSeq == Init /\ [][NextSeq]_vars

\* A record is stored under job:<id>.
Persisted(st, id) == st[id] # NoJob

\* ---- complete_job calls over a submitted batch ----
\* The storage after submit_jobs(jobs) has returned on an empty store: every
\* job written, the jobs without dependencies written again as Ready and
\* their ids pushed in the order of the batch.
SubmittedStore(jobs) ==
    [id \in JobIds |->
        IF \E n \in 1..Len(jobs) : jobs[n].id = id
        THEN LET job == jobs[CHOOSE n \in 1..Len(jobs) : jobs[n].id = id]
             IN  to_json(IF job.dependencies = {}
                         THEN [job EXCEPT !.status = "Ready"] ELSE job)
        ELSE NoJob]

RECURSIVE SubmittedQueues(_)
SubmittedQueues(jobs) ==
    IF jobs = <<>> THEN [q \in QueueNames |-> <<>>]
    ELSE LET before == SubmittedQueues(SubSeq(jobs, 1, Len(jobs) - 1))
             job == jobs[Len(jobs)]
         IN  IF job.dependencies = {} THEN lpush(before, queue_name(job), job.id)
             ELSE before

InitRace ==
    /\ \E k \in 1..NumJobs :
         \E jobs \in Batches(1, k) :
            /\ store = SubmittedStore(jobs)
            /\ queues = SubmittedQueues(jobs)
            /\ issued = k
    /\ calls = [c \in Slots |-> Idle]
    /\ ret = [op |-> "submit_jobs", result |-> "ok"]
    /\ ncalls = 1
    /\ failedSeen = {}
    /\ processing = <<>>
    /\ worker = NewWorker
    /\ tasks = <<>>
    /\ timer = [pending |-> FALSE, ticks |-> 0, since |-> 0]
    /\ signals = [sigterm |-> FALSE, sigint |-> FALSE, sent |-> 0]
    /\ InitExecIdle
    /\ InitClientIdle
    /\ InitRoundTripIdle

\* Up to MaxConcurrent complete_job calls at the same time, and nothing else.
NextRace ==
    \E c \in Slots :
        \/ CallCompleteJob(c)
        \/ CompleteGet(c)
        \/ CompleteSave(c)
        \/ TriggerNext(c)
        \/ CheckDep(c)
        \/ EnqueueSave(c)
        \/ EnqueuePush(c)

SpecRace == InitRace /\ [][NextRace]_vars

\* ---- agw/src/worker.rs: the main loop of the worker ----
\* The server answers one request at a time: no orchestrator call is running
\* and no reply to a posted result is outstanding.
ServerIdle ==
    /\ Quiescent
    /\ \A h \in 1..Len(tasks) : tasks[h].pc # "post_wait"

QUEUE_READY == "queue:default"

\* lrem(list, 1, value): the first occurrence of value, counted from the head,
\* is taken out of the list.
lrem(list, value) ==
    IF Contains(list, value)
    THEN LET i == CHOOSE i \in 1..Len(list) :
                      list[i] = value /\ \A j \in 1..(i - 1) : list[j] # value
         IN  SubSeq(list, 1, i - 1) \o SubSeq(list, i + 1, Len(list))
    ELSE list

\* A loop that never takes the shutdown exit.
loop_exit_never(w) == FALSE

\* if shutdown_requested && current_job.is_none() { break; }
loop_exit(w) == w.shutdown_requested /\ w.current_job = None

\* A fetch branch that forgets the shutdown flag.
fetch_enabled_ignores_shutdown(w) == w.current_job = None

\* A fetch branch that forgets the job in flight.
fetch_enabled_ignores_current_job(w) == ~w.shutdown_requested

\* job_result = self.fetch_job(), if current_job.is_none() && !shutdown_requested
fetch_enabled(w) == w.current_job = None /\ ~w.shutdown_requested

\* JoinHandle::is_finished
is_finished(task) == task.pc \in {"finished", "panicked"}

\* The spawned executions that have not finished.
InFlight(ts) == {h \in 1..Len(ts) : ~is_finished(ts[h])}

\* self.config.shutdown_timeout_duration(): the configured timeout, counted
\* in heartbeat intervals.
shutdown_timeout == Some(1)

\* biased select: the branches before the fetch branch, in their order.
SignalReady == signals.sigterm \/ signals.sigint

\* A select! that polled the fetch branch before the heartbeat tick.
HigherReady_fetch_before_tick == SignalReady

HigherReady == SignalReady \/ timer.pending

\* The completion check of the loop: `if handle.is_finished()` looks at the
\* handle and goes on; awaiting the handle there would hold the loop until
\* the execution has ended.
blocks_on_job_await(w) == w.current_job # None /\ ~is_finished(tasks[w.current_job[1]])

blocks_on_job(w) == FALSE

\* The state in which Worker::run has returned.
Done(w, result) ==
    [w EXCEPT !.pc = "done", !.result = result, !.fetch = "disabled", !.job_id_raw = 0]

\* The next turn of the loop; a fetch that was pending is dropped.
Again(w) == [w EXCEPT !.pc = "loop", !.fetch = "disabled", !.job_id_raw = 0]

\* A heartbeat or a fetch failed with e.  A loop that logged e and went on:
on_error_logged(w) == Again([w EXCEPT !.result = "err"])

\* Err(e) => { error!(...); return Err(e); } (and `?` on the first heartbeat)
on_error(w) == Done(w, "err")

\* The join of a finished execution whose JoinError ended the loop.
on_join_propagates(w, task) ==
    IF task.pc = "panicked" THEN Done(w, "err") ELSE [w EXCEPT !.current_job = None]

\* if let Err(e) = handle.await { error!("Job execution task panicked") }
\* current_job = None
on_join(w, task) ==
    [w EXCEPT !.current_job = None,
              !.panic_logged = @ \/ task.pc = "panicked"]

\* heartbeat_interval.tick().await; self.send_heartbeat().await?
RunStart ==
    /\ worker.pc = "start"
    /\ \E sent \in BOOLEAN :
         worker' = IF sent THEN [worker EXCEPT !.pc = "loop"] ELSE on_error(worker)
    /\ UNCHANGED <<store, queues, calls, ret, issued, ncalls, failedSeen,
                   processing, tasks, timer, signals, xvars, cvars, rvars>>

\* The head of one turn of the loop: the shutdown exit (and the code after the
\* loop), the join of a finished execution, and the entry into select!, where
\* the fetch branch is polled if its precondition holds and no branch before
\* it is ready.
LoopTop ==
    /\ worker.pc = "loop"
    /\ ~blocks_on_job(worker)
    /\ IF loop_exit(worker)
       THEN IF worker.current_job # None
            THEN \E in_time \in BOOLEAN :
                   worker' = [Done(worker, "ok") EXCEPT
                                 !.forced = shutdown_timeout # None /\ ~in_time]
            ELSE worker' = Done(worker, "ok")
       ELSE LET joined ==
                    IF worker.current_job # None
                          /\ is_finished(tasks[worker.current_job[1]])
                    THEN on_join(worker, tasks[worker.current_job[1]])
                    ELSE worker
            IN  worker' = IF joined.pc = "done" THEN joined ELSE
                          [joined EXCEPT
                              !.pc = "select",
                              !.fetch = IF fetch_enabled(joined) /\ ~HigherReady
                                        THEN "brpoplpush" ELSE "disabled"]
    /\ UNCHANGED <<store, queues, calls, ret, issued, ncalls, failedSeen,
                   processing, tasks, timer, signals, xvars, cvars, rvars>>

\* _ = sigterm.recv() => { shutdown_requested = true; }
SelectSigterm ==
    /\ worker.pc = "select"
    /\ signals.sigterm
    /\ signals' = [signals EXCEPT !.sigterm = FALSE]
    /\ worker' = [Again(worker) EXCEPT !.shutdown_requested = TRUE]
    /\ UNCHANGED <<store, queues, calls, ret, issued, ncalls, failedSeen,
                   processing, tasks, timer, xvars, cvars, rvars>>

\* _ = sigint.recv() => { shutdown_requested = true; }
SelectSigint ==
    /\ worker.pc = "select"
    /\ signals.sigint
    /\ ~signals.sigterm
    /\ signals' = [signals EXCEPT !.sigint = FALSE]
    /\ worker' = [Again(worker) EXCEPT !.shutdown_requested = TRUE]
    /\ UNCHANGED <<store, queues, calls, ret, issued, ncalls, failedSeen,
                   processing, tasks, timer, xvars, cvars, rvars>>

\* _ = heartbeat_interval.tick() => match self.send_heartbeat().await { ... }
SelectHeartbeat ==
    /\ worker.pc = "select"
    /\ timer.pending
    /\ ~SignalReady
    /\ timer' = [timer EXCEPT !.pending = FALSE]
    /\ \E sent \in BOOLEAN :
         worker' = IF sent THEN Again(worker) ELSE on_error(worker)
    /\ UNCHANGED <<store, queues, calls, ret, issued, ncalls, failedSeen,
                   processing, tasks, signals, xvars, cvars, rvars>>

\* ---- fetch_job ----
\* The server carries out brpoplpush(QUEUE_READY, QUEUE_PROCESSING, TIMEOUT):
\* the id at the tail of the ready list goes to the head of the processing
\* list in one step.
FetchPop ==
    LET ready == queues[QUEUE_READY]
    IN  /\ worker.pc = "select"
        /\ worker.fetch = "brpoplpush"
        /\ ready # <<>>
        /\ queues' = [queues EXCEPT ![QUEUE_READY] = SubSeq(ready, 1, Len(ready) - 1)]
        /\ processing' = <<ready[Len(ready)]>> \o processing
        /\ worker' = [worker EXCEPT !.fetch = "job_get", !.job_id_raw = ready[Len(ready)]]
        /\ UNCHANGED <<store, calls, ret, issued, ncalls, failedSeen,
                       tasks, timer, signals, xvars, cvars, rvars>>

\* None => Ok(None): the blocking move timed out on an empty ready list.
FetchTimeout ==
    /\ worker.pc = "select"
    /\ worker.fetch = "brpoplpush"
    /\ queues[QUEUE_READY] = <<>>
    /\ ~HigherReady
    /\ worker' = Again(worker)
    /\ UNCHANGED <<store, queues, calls, ret, issued, ncalls, failedSeen,
                   processing, tasks, timer, signals, xvars, cvars, rvars>>

\* Err(e) => return Err(e): brpoplpush, job_get, Job::from_json or
\* job.validate failed.
FetchErr ==
    /\ worker.pc = "select"
    /\ worker.fetch \in {"brpoplpush", "job_get"}
    /\ ~HigherReady
    /\ worker' = on_error(worker)
    /\ UNCHANGED <<store, queues, calls, ret, issued, ncalls, failedSeen,
                   processing, tasks, timer, signals, xvars, cvars, rvars>>

\* ---- handle_task_execution ----
\* An execution that takes the id off the processing list before it posts.
handle_task_execution_body_lrem_first == <<"execute_task", "lrem", "post_job_result">>

\* The statements of handle_task_execution, in source order (both arms of
\* the match run post_job_result and then lrem).
handle_task_execution_body == <<"execute_task", "post_job_result", "lrem">>

\* Where the execution goes on when post_job_result has failed, with a
\* missing `return`.
on_post_error_falls_through == "lrem"

\* if let Err(e) = client.post_job_result(...).await { error!(...); return; }
on_post_error == "return"

\* The position of the execution at a statement; after `return` it is finished.
TaskAt(stmt) == IF stmt = "return" THEN "finished" ELSE stmt

TaskAfter(stmt) == TaskAt(StmtAfter(handle_task_execution_body, stmt))

\* A spawned execution at its first statement.
NewTask(job_id) ==
    [pc |-> handle_task_execution_body[1], job_id |-> job_id, outcome |-> "none",
     status |-> "none", posts |-> 0, posted |-> FALSE]

\* Ok(Some((job, job_id_raw))) => { current_job = Some(tokio::spawn(
\* Self::handle_task_execution(job, job_id_raw, client))); }
FetchSpawn ==
    /\ worker.pc = "select"
    /\ worker.fetch = "job_get"
    /\ ~HigherReady
    /\ Persisted(store, worker.job_id_raw)
    /\ tasks' = Append(tasks, NewTask(worker.job_id_raw))
    /\ worker' = [Again(worker) EXCEPT !.current_job = Some(Len(tasks) + 1)]
    /\ UNCHANGED <<store, queues, calls, ret, issued, ncalls, failedSeen,
                   processing, timer, signals, xvars, cvars, rvars>>

\* The outcomes of executor::execute_task(...).await: Ok(result) with
\* result.success, Ok(result) without it, and Err(e).
Outcomes == {"success", "failure", "error"}

\* An execution that reports an execution error under a status of its own.
post_status_error_apart(outcome) ==
    IF outcome = "success" THEN "completed"
    ELSE IF outcome = "failure" THEN "failed" ELSE "error"

\* let status = if result.success { "completed" } else { "failed" }; and
\* "failed" in the Err(e) arm.
post_status(outcome) == IF outcome = "success" THEN "completed" ELSE "failed"

\* match executor::execute_task(...).await: Ok(result) with result.success or
\* without it, or Err(e); the status that will be posted.
TaskExecute(h) ==
    /\ tasks[h].pc = "execute_task"
    /\ \E outcome \in Outcomes :
         tasks' = [tasks EXCEPT ![h] =
                      [@ EXCEPT !.pc = TaskAfter("execute_task"),
                                !.outcome = outcome,
                                !.status = post_status(outcome)]]
    /\ UNCHANGED <<store, queues, calls, ret, issued, ncalls, failedSeen,
                   processing, worker, timer, signals, xvars, cvars, rvars>>

\* The execution panics: its JoinHandle is finished and holds a JoinError.
TaskPanic(h) ==
    /\ tasks[h].pc = "execute_task"
    /\ tasks' = [tasks EXCEPT ![h] = [@ EXCEPT !.pc = "panicked"]]
    /\ UNCHANGED <<store, queues, calls, ret, issued, ncalls, failedSeen,
                   processing, worker, timer, signals, xvars, cvars, rvars>>

\* client.post_job_result(&job.id, ..., status): the server takes the request
\* and has the orchestrator mark the job, complete_job for "completed" and
\* fail_job otherwise.
TaskPost(h) ==
    /\ tasks[h].pc = "post_job_result"
    /\ ServerIdle
    /\ \E c \in Slots :
         /\ FreeSlot(c)
         /\ calls' = [calls EXCEPT ![c] =
                         IF tasks[h].status = "completed"
                         THEN [Idle EXCEPT !.op = "complete_job", !.pc = complete_job_body[1],
                                           !.job_id = tasks[h].job_id,
                                           !.exit_code = CHOOSE e \in CompleteCodes : TRUE]
                         ELSE [Idle EXCEPT !.op = "fail_job", !.pc = fail_job_body[1],
                                           !.job_id = tasks[h].job_id,
                                           !.exit_code = CHOOSE e \in FailCodes : TRUE]]
    /\ ncalls' = ncalls + 1
    /\ ret' = NoReturn
    /\ tasks' = [tasks EXCEPT ![h] = [@ EXCEPT !.pc = "post_wait", !.posts = @ + 1]]
    /\ UNCHANGED <<store, queues, issued, failedSeen, processing, worker, timer, signals, xvars, cvars, rvars>>

\* post_job_result fails before the server has taken the request.
TaskPostFail(h) ==
    /\ tasks[h].pc = "post_job_result"
    /\ tasks' = [tasks EXCEPT ![h] = [@ EXCEPT !.pc = TaskAt(on_post_error), !.posts = @ + 1]]
    /\ UNCHANGED <<store, queues, calls, ret, issued, ncalls, failedSeen,
                   processing, worker, timer, signals, xvars, cvars, rvars>>

\* The reply to post_job_result: Ok when the orchestrator call returned Ok.
TaskPostReturn(h) ==
    /\ tasks[h].pc = "post_wait"
    /\ Quiescent
    /\ tasks' = [tasks EXCEPT ![h] =
                    IF ret.result = "ok"
                    THEN [@ EXCEPT !.pc = TaskAfter("post_job_result"), !.posted = TRUE]
                    ELSE [@ EXCEPT !.pc = TaskAt(on_post_error)]]
    /\ UNCHANGED <<store, queues, calls, ret, issued, ncalls, failedSeen,
                   processing, worker, timer, signals, xvars, cvars, rvars>>

\* if let Err(e) = client.lrem(QUEUE_PROCESSING, 1, &job_id_raw).await { error!(...) }
TaskLrem(h) ==
    /\ tasks[h].pc = "lrem"
    /\ \E removed \in BOOLEAN :
         processing' = IF removed THEN lrem(processing, tasks[h].job_id) ELSE processing
    /\ tasks' = [tasks EXCEPT ![h] = [@ EXCEPT !.pc = TaskAfter("lrem")]]
    /\ UNCHANGED <<store, queues, calls, ret, issued, ncalls, failedSeen,
                   worker, timer, signals, xvars, cvars, rvars>>

\* ---- the process environment of the worker ----
Running == worker.pc \notin {"start", "done"}

\* SIGTERM is delivered to the process.
Sigterm ==
    /\ Running
    /\ signals.sent < MaxSignals
    /\ signals' = [signals EXCEPT !.sigterm = TRUE, !.sent = @ + 1]
    /\ UNCHANGED <<store, queues, calls, ret, issued, ncalls, failedSeen,
                   processing, worker, tasks, timer, xvars, cvars, rvars>>

\* SIGINT is delivered to the process.
Sigint ==
    /\ Running
    /\ signals.sent < MaxSignals
    /\ signals' = [signals EXCEPT !.sigint = TRUE, !.sent = @ + 1]
    /\ UNCHANGED <<store, queues, calls, ret, issued, ncalls, failedSeen,
                   processing, worker, tasks, timer, xvars, cvars, rvars>>

\* One heartbeat interval has passed since the last tick was taken.  since
\* counts the intervals that passed while shutdown was requested and a job
\* was in flight.
Tick ==
    /\ Running
    /\ ~timer.pending
    /\ timer.ticks < MaxTicks
    /\ timer' = [pending |-> TRUE, ticks |-> timer.ticks + 1,
                 since |-> IF worker.shutdown_requested /\ worker.current_job # None
                           THEN timer.since + 1 ELSE timer.since]
    /\ UNCHANGED <<store, queues, calls, ret, issued, ncalls, failedSeen,
                   processing, worker, tasks, signals, xvars, cvars, rvars>>

\* One worker against the server: a client submits batches, the worker
\* fetches and executes, and the server serves each posted result with a
\* call of the orchestrator.
NextWorker ==
    \/ \E c \in Slots : ServerIdle /\ CallSubmitJobs(c)
    \/ \E c \in Slots : Step(c)
    \/ RunStart
    \/ LoopTop
    \/ SelectSigterm
    \/ SelectSigint
    \/ SelectHeartbeat
    \/ FetchPop
    \/ FetchTimeout
    \/ FetchErr
    \/ FetchSpawn
    \/ \E h \in 1..Len(tasks) : TaskExecute(h)
    \/ \E h \in 1..Len(tasks) : TaskPanic(h)
    \/ \E h \in 1..Len(tasks) : TaskPost(h)
    \/ \E h \in 1..Len(tasks) : TaskPostFail(h)
    \/ \E h \in 1..Len(tasks) : TaskPostReturn(h)
    \/ \E h \in 1..Len(tasks) : TaskLrem(h)
    \/ Sigterm
    \/ Sigint
    \/ Tick

SpecWorker == Init /\ [][NextWorker]_vars

\* ---- a worker that is not asked to shut down, on a submitted batch ----
\* One heartbeat interval has passed while the loop waits in select!: the
\* interval is long against one turn of the loop, and the ticks are not
\* counted.
TickLive ==
    /\ worker.pc = "select"
    /\ ~timer.pending
    /\ timer' = [timer EXCEPT !.pending = TRUE]
    /\ UNCHANGED <<store, queues, calls, ret, issued, ncalls, failedSeen,
                   processing, worker, tasks, signals, xvars, cvars, rvars>>

\* The worker, its executions and the server that serves the posted results;
\* no signal is delivered and no further batch is submitted.
NextLive ==
    \/ RunStart
    \/ LoopTop
    \/ SelectHeartbeat
    \/ FetchPop
    \/ FetchTimeout
    \/ FetchErr
    \/ FetchSpawn
    \/ \E h \in 1..Len(tasks) : TaskExecute(h)
    \/ \E h \in 1..Len(tasks) : TaskPanic(h)
    \/ \E h \in 1..Len(tasks) : TaskPost(h)
    \/ \E h \in 1..Len(tasks) : TaskPostFail(h)
    \/ \E h \in 1..Len(tasks) : TaskPostReturn(h)
    \/ \E h \in 1..Len(tasks) : TaskLrem(h)
    \/ \E c \in Slots : CompleteGet(c)
    \/ \E c \in Slots : CompleteSave(c)
    \/ \E c \in Slots : FailGet(c)
    \/ \E c \in Slots : FailSave(c)
    \/ \E c \in Slots : TriggerNext(c)
    \/ \E c \in Slots : CheckDep(c)
    \/ \E c \in Slots : EnqueueSave(c)
    \/ \E c \in Slots : EnqueuePush(c)
    \/ TickLive

\* The scheduling of the runtime: the loop, the spawned execution and the
\* server each go on when they can, the interval timer keeps firing, and a
\* blocking pop on a list that is not empty is served (brpoplpush returns at
\* once when the list has an element).  No failure is forced.
LiveFairness ==
    /\ WF_vars(RunStart \/ LoopTop \/ SelectHeartbeat \/ FetchTimeout \/ FetchSpawn)
    /\ SF_vars(FetchPop)
    /\ WF_vars(TickLive)
    /\ WF_vars(\E h \in 1..Len(tasks) :
                  \/ TaskExecute(h) \/ TaskPost(h) \/ TaskPostFail(h)
                  \/ TaskPostReturn(h) \/ TaskLrem(h))
    /\ WF_vars(\E c \in Slots : Step(c))

SpecLive == InitRace /\ [][NextLive]_vars /\ LiveFairness

\* ---- agw/src/executor.rs: execute_task and execute_plan ----
\* A String is a sequence; String::new() is the empty one.
EmptyString == <<>>

\* The struct literals of execute_task (the execution time left out).
TaskResult(task_number, success, exit_code, stdout, stderr) ==
    [task_number |-> task_number, success |-> success, exit_code |-> exit_code,
     stdout |-> stdout, stderr |-> stderr]

RECURSIVE all_success(_)
all_success(task_results) ==
    IF task_results = <<>> THEN TRUE
    ELSE Head(task_results).success /\ all_success(Tail(task_results))

PlanResult_new(task_results) ==
    [success |-> all_success(task_results), task_results |-> task_results]

\* Option::unwrap_or.
unwrap_or(opt, default) == IF opt = None THEN default ELSE opt[1]

\* ExitStatus::success: the process exited, with code 0.
status_success(code) == code = Some(0)

\* What the sandbox is run with.  The trait's run takes the command, the
\* arguments and the environment: the input of the task is not among them.
sandbox_stdin(stdin_input) == None

\* The outcomes of sandbox.run under the timeout of the task: the output of a
\* process that ran (its exit code, none when a signal ended it), an error of
\* the sandbox (the command, or unshare, could not be started), or the timeout
\* elapsing first.  A command that does not exist (or is empty) fails to start
\* in the macOS sandbox and makes unshare exit with a nonzero code in the
\* Linux one.
Output(code, stdout) == [kind |-> "output", code |-> code, stdout |-> stdout]

SandboxError == [kind |-> "error", code |-> None, stdout |-> EmptyString]

Elapsed == [kind |-> "elapsed", code |-> None, stdout |-> EmptyString]

SandboxOutcomes(task) ==
    (IF task.command # "sh"
     THEN {SandboxError, Output(Some(NonZeroCode), EmptyString)}
     ELSE {Output(code, <<task.task_number>>) : code \in {Some(0), Some(NonZeroCode), None}}
          \cup {SandboxError})
    \cup (IF task.timeout_secs # None THEN {Elapsed} ELSE {})

\* The Result of execute_task, with the runs of the sandbox it made.
Ok(result, runs) == [err |-> FALSE, result |-> result, runs |-> runs]

Err(runs) == [err |-> TRUE, result |-> NoResult, runs |-> runs]

SandboxRun(command, stdin, outcome) ==
    [command |-> command, stdin |-> stdin, kind |-> outcome.kind]

execute_task_no_validation(command, stdin_input, timeout_secs, task_number, outcome) ==
    LET runs == <<SandboxRun(command, sandbox_stdin(stdin_input), outcome)>>
    IN  IF timeout_secs # None /\ outcome.kind = "elapsed"
        THEN Ok(TaskResult(task_number, FALSE, -1, EmptyString, "Task timed out"), runs)
        ELSE IF outcome.kind = "error"
        THEN Ok(TaskResult(task_number, FALSE, -1, EmptyString,
                           "Sandbox execution failed"), runs)
        ELSE Ok(TaskResult(task_number, status_success(outcome.code),
                           unwrap_or(outcome.code, -1), outcome.stdout, EmptyString),
                runs)

execute_task_timeout_propagates(command, stdin_input, timeout_secs, task_number, outcome) ==
    LET runs == <<SandboxRun(command, sandbox_stdin(stdin_input), outcome)>>
    IN  IF command = "" THEN Err(<<>>)
        ELSE IF timeout_secs # None /\ outcome.kind = "elapsed"
        THEN Err(runs)
        ELSE IF outcome.kind = "error"
        THEN Ok(TaskResult(task_number, FALSE, -1, EmptyString,
                           "Sandbox execution failed"), runs)
        ELSE Ok(TaskResult(task_number, status_success(outcome.code),
                           unwrap_or(outcome.code, -1), outcome.stdout, EmptyString),
                runs)

execute_task_error_propagates(command, stdin_input, timeout_secs, task_number, outcome) ==
    LET runs == <<SandboxRun(command, sandbox_stdin(stdin_input), outcome)>>
    IN  IF command = "" THEN Err(<<>>)
        ELSE IF timeout_secs # None /\ outcome.kind = "elapsed"
        THEN Ok(TaskResult(task_number, FALSE, -1, EmptyString, "Task timed out"), runs)
        ELSE IF outcome.kind = "error"
        THEN Err(runs)
        ELSE Ok(TaskResult(task_number, status_success(outcome.code),
                           unwrap_or(outcome.code, -1), outcome.stdout, EmptyString),
                runs)

\* execute_task: the empty command is refused before a sandbox exists; the
\* timeout and the error of the sandbox become failed results, returned Ok.
execute_task(command, stdin_input, timeout_secs, task_number, outcome) ==
    LET runs == <<SandboxRun(command, sandbox_stdin(stdin_input), outcome)>>
    IN  IF command = "" THEN Err(<<>>)
        ELSE IF timeout_secs # None /\ outcome.kind = "elapsed"
        THEN Ok(TaskResult(task_number, FALSE, -1, EmptyString, "Task timed out"), runs)
        ELSE IF outcome.kind = "error"
        THEN Ok(TaskResult(task_number, FALSE, -1, EmptyString,
                           "Sandbox execution failed"), runs)
        ELSE Ok(TaskResult(task_number, status_success(outcome.code),
                           unwrap_or(outcome.code, -1), outcome.stdout, EmptyString),
                runs)

\* previous_outputs is a map from task numbers to captured stdout, kept here
\* as the sequence of its entries in insertion order.
RECURSIVE map_get(_, _)
map_get(entries, key) ==
    IF entries = <<>> THEN None
    ELSE IF entries[Len(entries)].key = key THEN Some(entries[Len(entries)].value)
    ELSE map_get(SubSeq(entries, 1, Len(entries) - 1), key)

map_insert(entries, key, value) ==
    SelectSeq(entries, LAMBDA e : e.key # key) \o <<[key |-> key, value |-> value]>>

\* task.input_from_task.and_then(|n| previous_outputs.get(&n).cloned())
input_of(task, previous_outputs) ==
    IF task.input_from_task = None THEN None
    ELSE map_get(previous_outputs, task.input_from_task[1])

\* if !success { break; }
halt_on_failure_never(success) == FALSE

halt_on_failure(success) == ~success

\* The plans execute_plan is called with: task numbers count from 1 in list
\* order, as the plans of the tests do.
Commands == {"", "sh", "nonexistent"}

\* A task takes no input, or the output of the first or the second task.
InputChoices == {None, Some(1), Some(2)}

TimeoutChoices == {None, Some(1)}

TaskOf(n, shape) ==
    [task_number |-> n, command |-> shape[1], input_from_task |-> shape[2],
     timeout_secs |-> shape[3]]

Plans ==
    UNION {{[n \in 1..len |-> TaskOf(n, shapes[n])] :
                shapes \in [1..len -> Commands \X InputChoices \X TimeoutChoices]} :
           len \in 1..MaxTasks}

ExecFrame ==
    UNCHANGED <<store, queues, calls, ret, issued, ncalls, failedSeen, wvars,
                cvars, rvars>>

\* One turn of the loop of execute_plan: the input of the task, execute_task,
\* and the match on what it returned.
PlanLoop ==
    /\ exec.pc = "loop"
    /\ exec.i <= Len(plan)
    /\ LET task == plan[exec.i]
           input == input_of(task, exec.previous_outputs)
       IN  \E outcome \in SandboxOutcomes(task) :
             LET r == execute_task(task.command, input, task.timeout_secs,
                                   task.task_number, outcome)
             IN  /\ sandbox_log' = sandbox_log \o r.runs
                 /\ exec' =
                      IF r.err
                      THEN [exec EXCEPT !.pc = "done", !.result = "err"]
                      ELSE [exec EXCEPT
                              !.previous_outputs =
                                  map_insert(@, task.task_number, r.result.stdout),
                              !.task_results = Append(@, r.result),
                              !.pc = IF halt_on_failure(r.result.success)
                                     THEN "after_loop" ELSE "loop",
                              !.i = @ + 1]
    /\ UNCHANGED plan
    /\ ExecFrame

\* The loop ran out of tasks.
PlanLoopEnd ==
    /\ exec.pc = "loop"
    /\ exec.i > Len(plan)
    /\ exec' = [exec EXCEPT !.pc = "after_loop"]
    /\ UNCHANGED <<plan, sandbox_log>>
    /\ ExecFrame

\* Ok(PlanResult::new(job_id, plan.plan_id, task_results))
PlanReturn ==
    /\ exec.pc = "after_loop"
    /\ exec' = [exec EXCEPT !.pc = "done", !.result = "ok",
                            !.plan_result = PlanResult_new(exec.task_results)]
    /\ UNCHANGED <<plan, sandbox_log>>
    /\ ExecFrame

\* execute_plan on every plan of the bounded set.
InitExec ==
    /\ plan \in Plans
    /\ exec = NewExec
    /\ sandbox_log = <<>>
    /\ InitClientIdle
    /\ InitRoundTripIdle
    /\ InitAgqAgw

NextExec ==
    \/ PlanLoop
    \/ PlanLoopEnd
    \/ PlanReturn

SpecExec == InitExec /\ [][NextExec]_vars

\* ---- agx/src/client.rs: the reply to PLAN.SUBMIT ----
\* A reply is a sequence of characters; "CR", "LF" and "SP" stand for the
\* carriage return, the line feed and the space.
CRLF == <<"CR", "LF">>

is_whitespace(ch) == ch \in {"CR", "LF", "SP"}

starts_with(s, ch) == s # <<>> /\ s[1] = ch

\* str::trim: the whitespace at both ends is taken off.
RECURSIVE trim_start(_)
trim_start(s) ==
    IF s # <<>> /\ is_whitespace(s[1]) THEN trim_start(Tail(s)) ELSE s

RECURSIVE trim_end(_)
trim_end(s) ==
    IF s # <<>> /\ is_whitespace(s[Len(s)])
    THEN trim_end(SubSeq(s, 1, Len(s) - 1)) ELSE s

trim(s) == trim_end(trim_start(s))

\* response.splitn(2, "\r\n"): the text before the first CRLF and the text
\* after it, or the whole text alone when it holds no CRLF.
splitn2(s) ==
    LET at == {i \in 1..(Len(s) - 1) : s[i] = "CR" /\ s[i + 1] = "LF"}
    IN  IF at = {} THEN <<s>>
        ELSE LET i == CHOOSE i \in at : \A j \in at : i <= j
             IN  <<SubSeq(s, 1, i - 1), SubSeq(s, i + 2, Len(s))>>

\* let content = parts[1].trim();
bulk_content(parts) == trim(parts[2])

ClientOk(text) == [err |-> FALSE, kind |-> "ok", text |-> text]

ClientErr(kind, text) == [err |-> TRUE, kind |-> kind, text |-> text]

\* submit_plan from `if response.starts_with('-')` on.
parse_response(response) ==
    IF starts_with(response, "-")
    THEN ClientErr("AGQ Error", trim(response))
    ELSE IF starts_with(response, "$")
    THEN LET parts == splitn2(response)
         IN  IF Len(parts) < 2
             THEN ClientErr("Invalid RESP response", response)
             ELSE ClientOk(bulk_content(parts))
    ELSE IF starts_with(response, "+")
    THEN ClientOk(trim(Tail(response)))
    ELSE ClientErr("Unexpected RESP response", response)

\* The frames of the wire protocol, as the server writes them.
Decimal(n) == <<Digits[n + 1]>>

Frame(kind, payload) ==
    [kind |-> kind, payload |-> payload,
     bytes |-> CASE kind = "bulk" -> <<"$">> \o Decimal(Len(payload)) \o CRLF
                                        \o payload \o CRLF
                 [] kind = "simple" -> <<"+">> \o payload \o CRLF
                 [] kind = "error" -> <<"-">> \o payload \o CRLF
                 [] kind = "array" -> <<"*">> \o payload \o CRLF
                 [] OTHER -> payload]

Strings(chars, len) == UNION {[1..n -> chars] : n \in 0..len}

\* A bulk payload is any bytes; the text of a line holds no CR or LF.
Replies ==
    {Frame("bulk", p) : p \in Strings({"a", "SP", "CR", "LF"}, MaxLen)}
    \cup {Frame(kind, p) : kind \in {"simple", "error", "array"},
                           p \in Strings({"a", "SP"}, MaxLen)}
    \cup {Frame("cut", p) : p \in {<<>>, <<"$">>, <<"$", "1">>, <<"a">>}}

ClientFrame ==
    UNCHANGED <<store, queues, calls, ret, issued, ncalls, failedSeen, wvars,
                xvars, rvars>>

\* let n = self.stream.read(&mut buf).await?; ... the parsing of the reply.
SubmitPlanReturn ==
    /\ parsed = NoParse
    /\ reply # NoReply
    /\ parsed' = parse_response(reply.bytes)
    /\ UNCHANGED reply
    /\ ClientFrame

InitClient ==
    /\ reply \in Replies
    /\ parsed = NoParse
    /\ InitExecIdle
    /\ InitRoundTripIdle
    /\ InitAgqAgw

NextClient == SubmitPlanReturn

SpecClient == InitClient /\ [][NextClient]_vars

\* ---- save_job and get_job on any job ----
\* The jobs save_job can be given: every status, any dependency sets, each
\* optional field absent or present, and two settings of the fields the
\* orchestrator never reads.
Carried ==
    {[action_id |-> "action", plan_id |-> "plan", task_number |-> 1,
      command |-> "sh", args |-> <<>>, env |-> "{}", created_at |-> 0],
     [action_id |-> "other", plan_id |-> "plan-2", task_number |-> 2,
      command |-> "echo", args |-> <<"-n", "x">>, env |-> "{\"K\":\"v\"}",
      created_at |-> 1]}

Jobs ==
    {[id |-> id, action_id |-> c.action_id, plan_id |-> c.plan_id,
      task_number |-> c.task_number, command |-> c.command, args |-> c.args,
      env |-> c.env, status |-> status, dependencies |-> deps,
      dependents |-> dependents, worker_id |-> opt[1],
      created_at |-> c.created_at, started_at |-> opt[2],
      completed_at |-> opt[3], exit_code |-> opt[4], tags |-> tags] :
        id \in JobIds, c \in Carried, status \in JobStatus,
        deps \in SUBSET JobIds, dependents \in {{}, JobIds},
        opt \in {None, Some("worker")} \X {None, Some(1)} \X {None, Some(1)}
                    \X {None, Some(0)},
        tags \in TagChoices}

RoundTripFrame ==
    UNCHANGED <<queues, calls, ret, issued, ncalls, failedSeen, wvars, xvars, cvars>>

\* self.save_job(&job)
RoundTripSave ==
    /\ job_in # NoJob
    /\ store[job_in.id] = NoJob
    /\ store' = save_job(store, job_in)
    /\ UNCHANGED rvars
    /\ RoundTripFrame

\* self.get_job(&job.id)
RoundTripGet ==
    /\ job_in # NoJob
    /\ store[job_in.id] # NoJob
    /\ job_out = NoJob
    /\ job_out' = get_job(store, job_in.id)
    /\ UNCHANGED <<store, job_in>>
    /\ RoundTripFrame

InitRoundTrip ==
    /\ job_in \in Jobs
    /\ job_out = NoJob
    /\ InitExecIdle
    /\ InitClientIdle
    /\ InitAgqAgw

NextRoundTrip ==
    \/ RoundTripSave
    \/ RoundTripGet

SpecRoundTrip == InitRoundTrip /\ [][NextRoundTrip]_vars

\* ---- what the claims speak about ----
StatusIn(st, id) == from_json(st[id]).status

DepsIn(st, id) == from_json(st[id]).dependencies

Count(seq, x) == Cardinality({i \in 1..Len(seq) : seq[i] = x})

OnQueue(qs, id) == \E q \in QueueNames : Contains(qs[q], id)

DepsCompleted(st, id) ==
    \A d \in DepsIn(st, id) : Persisted(st, d) /\ StatusIn(st, d) = "Completed"

BecomesReady(id) ==
    /\ Persisted(store', id)
    /\ StatusIn(store', id) = "Ready"
    /\ ~(Persisted(store, id) /\ StatusIn(store, id) = "Ready")

Pushed(id) == \E q \in QueueNames : Count(queues'[q], id) > Count(queues[q], id)

\* C1: in every reachable state, a job that is Ready or has its id on a ready
\* queue has every dependency persisted with status Completed.
C1_ReadyOnlyIfDepsCompleted ==
    \A id \in JobIds :
        (Persisted(store, id) /\ (StatusIn(store, id) = "Ready" \/ OnQueue(queues, id)))
            => DepsCompleted(store, id)

\* C2: whenever no orchestrator call is in progress, no persisted job with
\* dependencies is Pending while all its dependencies are Completed; and a
\* job with dependencies is set Ready only in a state where all of them are
\* Completed (a dependency in any other status keeps it Pending).
C2_NoPendingLeft ==
    Quiescent =>
        \A id \in JobIds :
            (Persisted(store, id) /\ DepsIn(store, id) # {}
                /\ StatusIn(store, id) = "Pending")
                => ~DepsCompleted(store, id)

C2_ReadyStep ==
    \A id \in JobIds :
        (BecomesReady(id) /\ DepsIn(store', id) # {}) => DepsCompleted(store', id)

C2_ReadyIffDepsCompleted == [](C2_NoPendingLeft) /\ [][C2_ReadyStep]_vars

C2_Witness ==
    /\ Quiescent
    /\ \E id \in JobIds :
         /\ Persisted(store, id)
         /\ Cardinality(DepsIn(store, id)) = 2
         /\ StatusIn(store, id) = "Ready"
         /\ OnQueue(queues, id)
         /\ DepsCompleted(store, id)

\* C3: when submit_jobs returns, it returns Ok, every job of the batch with no
\* dependencies is persisted Ready with its id exactly once on its routed
\* queue, and every other job of the batch is persisted as submitted
\* (Pending) and is on no queue: no other job took part.
C3_SubmitReturn ==
    \A c \in Slots :
        (calls[c].op = "submit_jobs" /\ calls'[c] = Idle) =>
            /\ ret' = [op |-> "submit_jobs", result |-> "ok"]
            /\ \A n \in 1..Len(calls[c].jobs) :
                 LET job == calls[c].jobs[n]
                 IN  IF job.dependencies = {}
                     THEN /\ store'[job.id] = to_json([job EXCEPT !.status = "Ready"])
                          /\ Count(queues'[queue_name(job)], job.id) = 1
                     ELSE /\ store'[job.id] = to_json(job)
                          /\ ~OnQueue(queues', job.id)

C3_NoDepsReadyOnSubmit == [][C3_SubmitReturn]_vars

C3_Witness ==
    /\ ret = [op |-> "submit_jobs", result |-> "ok"]
    /\ \E id \in JobIds :
         /\ Persisted(store, id)
         /\ DepsIn(store, id) = {}
         /\ StatusIn(store, id) = "Ready"
         /\ Contains(queues["queue:gpu"], id)
    /\ \E id \in JobIds :
         /\ Persisted(store, id)
         /\ DepsIn(store, id) # {}
         /\ StatusIn(store, id) = "Pending"

\* C4: every job id on a ready queue has its record stored under its key.
C4_QueuedIsPersisted ==
    \A q \in QueueNames :
        \A i \in 1..Len(queues[q]) : Persisted(store, queues[q][i])

C4_Witness ==
    /\ \E c \in Slots : calls[c].op = "complete_job" /\ calls[c].pc = "trigger_dependents"
    /\ \E id \in JobIds : OnQueue(queues, id) /\ DepsIn(store, id) # {}

\* C5: a job whose persisted status is terminal never has a non-terminal
\* persisted status afterwards.
C5_TerminalStep ==
    \A id \in JobIds :
        (Persisted(store, id) /\ is_terminal(StatusIn(store, id)))
            => (Persisted(store', id) /\ is_terminal(StatusIn(store', id)))

C5_TerminalStaysTerminal == [][C5_TerminalStep]_vars

\* C6: a record is created Pending, and every change of a persisted status is
\* one of Pending->Ready, Ready->Running, Running->Completed, Running->Failed
\* or non-terminal->Cancelled.
LifecycleEdge(a, b) ==
    \/ <<a, b>> \in {<<"Pending", "Ready">>, <<"Ready", "Running">>,
                     <<"Running", "Completed">>, <<"Running", "Failed">>}
    \/ ~is_terminal(a) /\ b = "Cancelled"

C6_LifecycleStep ==
    \A id \in JobIds :
        /\ (~Persisted(store, id) /\ Persisted(store', id))
              => StatusIn(store', id) = "Pending"
        /\ (Persisted(store, id) /\ Persisted(store', id)
              /\ StatusIn(store, id) # StatusIn(store', id))
              => LifecycleEdge(StatusIn(store, id), StatusIn(store', id))

C6_LifecycleEdges == [][C6_LifecycleStep]_vars

\* C7: while complete_job(A) sets a dependent Ready or pushes it, A's record
\* in storage is already the completed one: status Completed, a completion
\* timestamp and the exit code of the call.
C7_CompleteThenTrigger ==
    \A c \in Slots :
        (calls[c].op = "complete_job"
            /\ calls[c].pc \in {"enqueue_save", "enqueue_lpush"}) =>
            /\ calls[c].saved
            /\ calls[c].job.status = "Completed"
            /\ calls[c].job.completed_at # None
            /\ calls[c].job.exit_code = Some(calls[c].exit_code)
            /\ store[calls[c].job_id] = to_json(calls[c].job)

C7_Witness ==
    \E c \in Slots :
        /\ calls[c].op = "complete_job"
        /\ calls[c].pc = "enqueue_lpush"
        /\ StatusIn(store, calls[c].enq.id) = "Ready"
        /\ calls[c].job_id \in calls[c].enq.dependencies

\* C8: complete_job or fail_job on an id with no record returns an error and
\* changes no record and no queue.
C8_NotFoundStep ==
    \A c \in Slots :
        (calls[c].op \in {"complete_job", "fail_job"}
            /\ calls[c].pc = "get_job"
            /\ ~Persisted(store, calls[c].job_id)
            /\ calls'[c] # calls[c]) =>
            /\ calls'[c] = Idle
            /\ ret' = [op |-> calls[c].op, result |-> "err"]
            /\ store' = store
            /\ queues' = queues

C8_UnknownJobIsError == [][C8_NotFoundStep]_vars

C8_Witness ==
    /\ ret.op \in {"complete_job", "fail_job"}
    /\ ret.result = "err"
    /\ ncalls = 1
    /\ \A id \in JobIds : ~Persisted(store, id)

\* C9: a fail_job call only loads its job and writes it back Failed with a
\* completion timestamp and the exit code of the call; it never loads,
\* evaluates or enqueues a dependent, and no step of it changes another
\* record or a queue.
C9_FailJobPlace ==
    \A c \in Slots :
        calls[c].op = "fail_job" =>
            /\ calls[c].pc \in {"get_job", "save_job"}
            /\ calls[c].dependent = NoJob
            /\ calls[c].enq = NoJob

C9_FailJobStep ==
    \A c \in Slots :
        (calls[c].op = "fail_job" /\ calls'[c] # calls[c]) =>
            /\ queues' = queues
            /\ \A id \in JobIds : id # calls[c].job_id => store'[id] = store[id]
            /\ calls[c].pc = "get_job" => store' = store
            /\ calls[c].pc = "save_job" =>
                 /\ \E now \in Timestamps :
                      store'[calls[c].job_id] =
                          to_json([calls[c].job EXCEPT !.status = "Failed",
                                                       !.completed_at = Some(now),
                                                       !.exit_code = Some(calls[c].exit_code)])
                 /\ calls'[c] = Idle
                 /\ ret' = [op |-> "fail_job", result |-> "ok"]

C9_FailJobDoesNotCascade == [](C9_FailJobPlace) /\ [][C9_FailJobStep]_vars

C9_Witness ==
    /\ ret = [op |-> "fail_job", result |-> "ok"]
    /\ \E id \in JobIds :
         /\ Persisted(store, id)
         /\ StatusIn(store, id) = "Failed"
         /\ from_json(store[id]).exit_code = Some(1)
         /\ \E d \in from_json(store[id]).dependents :
              Persisted(store, d) /\ StatusIn(store, d) = "Pending"

\* C10: once a dependency of job J has been Failed, J is never set Ready and
\* its id is never pushed onto a queue.
C10_FailedDepStep ==
    \A id \in JobIds :
        (Persisted(store, id) /\ DepsIn(store, id) \cap failedSeen # {})
            => ~(BecomesReady(id) \/ Pushed(id))

C10_FailedDepBlocksForever == [][C10_FailedDepStep]_vars

\* ---- more of what the claims speak about ----
DependentsIn(st, id) == from_json(st[id]).dependents

TagsIn(st, id) == from_json(st[id]).tags

\* How often an id is on the ready queues altogether.
TimesQueued(qs, id) == Count(qs["queue:default"], id) + Count(qs["queue:gpu"], id)

\* The call in slot c takes the step.
Acts(c) == calls'[c] # calls[c]

\* C11: a complete_job call evaluates only ids of its job's dependents and
\* changes no record but its own job's and theirs; and it evaluates every one
\* of them: when the call returns, no dependent is left unevaluated, whatever
\* the outcome was for the others (not ready, not Pending, or not loadable).
C11_OnlyDependents ==
    \A c \in Slots :
        (calls[c].op = "complete_job" /\ calls[c].job # NoJob /\ Acts(c)) =>
            /\ calls[c].todo \subseteq calls[c].job.dependents
            /\ calls'[c].dependent # NoJob
                  => calls'[c].dependent.id \in calls[c].job.dependents
            /\ calls'[c].enq # NoJob => calls'[c].enq.id \in calls[c].job.dependents
            /\ \A id \in JobIds :
                 store'[id] # store[id]
                    => id \in calls[c].job.dependents \cup {calls[c].job_id}
            /\ \A id \in JobIds : Pushed(id) => id \in calls[c].job.dependents

C11_EveryDependent ==
    \A c \in Slots :
        (calls[c].op = "complete_job" /\ calls[c].job # NoJob /\ calls'[c] = Idle) =>
            IF calls[c].pc = "trigger_dependents"
            THEN Cardinality(calls[c].todo) = 1
            ELSE calls[c].todo = {}

C11_DependentsEvaluatedIndependently ==
    [][C11_OnlyDependents /\ C11_EveryDependent]_vars

\* C12: trigger_dependents leaves a dependent that is not Pending untouched:
\* a complete_job call rewrites the record of another job only if that job is
\* stored Pending, an id is pushed only if it is on no queue yet, and so no
\* id is ever on the ready queues twice, however often complete_job is
\* called on the same job.
C12_PendingOnlyStep ==
    /\ \A c \in Slots :
         (calls[c].op = "complete_job" /\ Acts(c)) =>
             \A id \in JobIds :
                 (id # calls[c].job_id /\ store'[id] # store[id])
                    => (Persisted(store, id) /\ StatusIn(store, id) = "Pending")
    /\ \A id \in JobIds : Pushed(id) => ~OnQueue(queues, id)

C12_QueuedOnce == \A id \in JobIds : TimesQueued(queues, id) <= 1

C12_TriggerIsIdempotent == [](C12_QueuedOnce) /\ [][C12_PendingOnlyStep]_vars

\* A third call, complete_job on a job with two dependents, has passed over
\* one of them: both were made Ready by the complete_job call before it.
C12_Witness ==
    /\ ncalls = 3
    /\ \E c \in Slots :
         /\ calls[c].op = "complete_job"
         /\ calls[c].pc = "trigger_dependents"
         /\ Cardinality(calls[c].job.dependents) = 2
         /\ Cardinality(calls[c].todo) = 1
         /\ \A d \in calls[c].job.dependents :
              /\ StatusIn(store, d) = "Ready"
              /\ DepsIn(store, d) = {calls[c].job_id}
              /\ TimesQueued(queues, d) = 1

\* C13: enqueue_job stores the job Ready and then pushes its id, and nothing
\* else, once onto queue:gpu if "gpu" is among its tags and once onto
\* queue:default if it is not, leaving the other queue and the store alone.
C13_RouteStep ==
    \A c \in Slots :
        /\ (calls[c].pc = "enqueue_save" /\ Acts(c)) =>
              /\ store' = [store EXCEPT ![calls[c].enq.id] =
                              to_json([calls[c].enq EXCEPT !.status = "Ready"])]
              /\ queues' = queues
        /\ (calls[c].pc = "enqueue_lpush" /\ Acts(c)) =>
              LET job == calls[c].enq
                  routed == IF \E n \in DOMAIN job.tags : job.tags[n] = "gpu"
                            THEN "queue:gpu" ELSE "queue:default"
              IN  /\ StatusIn(store, job.id) = "Ready"
                  /\ TagsIn(store, job.id) = job.tags
                  /\ queues' = [queues EXCEPT ![routed] = <<job.id>> \o @]
                  /\ store' = store

C13_RoutingByTags == [][C13_RouteStep]_vars

C13_Witness ==
    /\ Quiescent
    /\ \E g, d \in JobIds :
         /\ queues["queue:gpu"] = <<g>>
         /\ queues["queue:default"] = <<d>>
         /\ TagsIn(store, g) = <<"linux", "gpu">>
         /\ TagsIn(store, d) = <<>>
         /\ DepsIn(store, g) # {}

\* C14: for all stored jobs A and B, B is a dependency of A exactly if A is a
\* dependent of B.
C14_DependenciesMutual ==
    \A a, b \in JobIds :
        (Persisted(store, a) /\ Persisted(store, b))
            => (b \in DepsIn(store, a) <=> a \in DependentsIn(store, b))

C14_Witness ==
    \E a, b \in JobIds :
        /\ Persisted(store, a) /\ Persisted(store, b)
        /\ StatusIn(store, a) = "Completed"
        /\ StatusIn(store, b) = "Ready"
        /\ Cardinality(DepsIn(store, b)) = 2
        /\ a \in DepsIn(store, b)
        /\ b \in DependentsIn(store, a)

\* ---- what the claims about the worker speak about ----
\* The id is on a ready list or on the processing list.
Visible(qs, proc, id) == OnQueue(qs, id) \/ Contains(proc, id)

\* submit_jobs has returned for the job.
Submitted(id) ==
    /\ Persisted(store, id)
    /\ \A c \in Slots :
         calls[c].op = "submit_jobs"
            => \A n \in 1..Len(calls[c].jobs) : calls[c].jobs[n].id # id

\* An execution of the job has posted its result and gone past its lrem.
RemovedAfterPost(id) ==
    \E h \in 1..Len(tasks) :
        tasks[h].job_id = id /\ tasks[h].posted /\ tasks[h].pc = "finished"

\* The execution h issues its lrem in this step.
IssuesLrem(h) == tasks[h].pc = "lrem" /\ tasks'[h].pc # "lrem"

\* C15 as stated: every submitted job whose id no worker has removed after
\* posting its result is on a ready list or on the processing list.
C15_SubmittedIsVisible ==
    \A id \in JobIds :
        (Submitted(id) /\ ~RemovedAfterPost(id)) => Visible(queues, processing, id)

\* C15 amended: an id that is on a ready list or on the processing list stays
\* on one of them until an execution of that job that has posted its result
\* issues its lrem.
C15_VisibleStep ==
    \A id \in JobIds :
        (Visible(queues, processing, id) /\ ~Visible(queues', processing', id)) =>
            \E h \in 1..Len(tasks) :
                tasks[h].job_id = id /\ tasks[h].posted /\ IssuesLrem(h)

C15_VisibleUntilRemoved == [][C15_VisibleStep]_vars

C15_Witness ==
    \E h \in 1..Len(tasks) :
        /\ tasks[h].pc = "lrem"
        /\ Contains(processing, tasks[h].job_id)
        /\ ~OnQueue(queues, tasks[h].job_id)
        /\ \E d \in DependentsIn(store, tasks[h].job_id) :
             Submitted(d) /\ StatusIn(store, d) = "Pending"
                /\ ~Visible(queues, processing, d)

\* C16: an execution is at its lrem, and the processing list loses an entry,
\* only after post_job_result has returned Ok for that job; an execution
\* whose post fails finishes there, with its id still on the processing list.
C16_LremPlace ==
    \A h \in 1..Len(tasks) :
        /\ tasks[h].pc = "lrem" => tasks[h].posted
        /\ (tasks[h].pc = "finished" /\ ~tasks[h].posted)
              => Contains(processing, tasks[h].job_id)

C16_LremStep ==
    /\ processing' # processing /\ Len(processing') <= Len(processing)
          => \E h \in 1..Len(tasks) : tasks[h].posted /\ IssuesLrem(h)
    /\ \A h \in 1..Len(tasks) :
         (tasks[h].pc \in {"post_job_result", "post_wait"}
             /\ tasks'[h].pc \notin {"post_job_result", "post_wait"}
             /\ ~tasks'[h].posted)
            => (tasks'[h].pc = "finished" /\ processing' = processing)

C16_LremOnlyAfterPost == [](C16_LremPlace) /\ [][C16_LremStep]_vars

C16_Witness ==
    /\ \E h \in 1..Len(tasks) :
         /\ tasks[h].pc = "finished"
         /\ ~tasks[h].posted
         /\ tasks[h].status = "completed"
         /\ processing = <<tasks[h].job_id>>
    /\ worker.current_job = None
    /\ worker.pc = "select"

\* C17: at most one spawned execution is unfinished at any time, none when
\* current_job is empty, and an execution is spawned only when current_job
\* is empty.
C17_OneInFlight ==
    /\ Cardinality(InFlight(tasks)) <= 1
    /\ worker.current_job = None => InFlight(tasks) = {}

C17_SpawnStep == Len(tasks') > Len(tasks) => worker.current_job = None

C17_OneJobAtATime == [](C17_OneInFlight) /\ [][C17_SpawnStep]_vars

C17_Witness ==
    /\ Len(tasks) = 2
    /\ InFlight(tasks) = {2}
    /\ worker.current_job = Some(2)
    /\ queues[QUEUE_READY] # <<>>

\* C18: when shutdown was requested with a job in flight and more heartbeat
\* intervals than the shutdown timeout have passed since, the worker has
\* terminated, although the job has not finished.
C18_ForcedShutdownAfterTimeout ==
    (/\ worker.shutdown_requested
     /\ shutdown_timeout # None
     /\ timer.since > shutdown_timeout[1]
     /\ ~timer.pending
     /\ InFlight(tasks) # {})
        => worker.pc = "done"

\* C19: a fetch is pending only while the worker is idle and shutdown is not
\* requested, and once the flag is set no id is moved to the processing list
\* and no execution is spawned.
C19_FetchPlace ==
    worker.fetch # "disabled"
        => (worker.pc = "select" /\ worker.current_job = None
               /\ ~worker.shutdown_requested)

C19_FetchStep ==
    (Len(processing') > Len(processing) \/ Len(tasks') > Len(tasks))
        => (~worker.shutdown_requested /\ worker.current_job = None)

C19_NoFetchAfterShutdown == [](C19_FetchPlace) /\ [][C19_FetchStep]_vars

\* Shutdown was requested while a job was in flight; the job has been joined,
\* the ready list holds an id, and the worker waits in select! without a fetch.
C19_Witness ==
    /\ worker.pc = "select"
    /\ worker.shutdown_requested
    /\ worker.current_job = None
    /\ Len(tasks) = 1
    /\ ~HigherReady
    /\ worker.fetch = "disabled"
    /\ queues[QUEUE_READY] # <<>>

\* C20: a signal taken while no job is in flight sets shutdown_requested and
\* starts the next turn of the loop; that turn returns Ok, and between the
\* two no id is moved to the processing list and no execution is spawned.
C20_SignalStep ==
    /\ (worker.pc = "select" /\ worker.current_job = None
            /\ signals' # signals /\ signals'.sent = signals.sent) =>
          /\ worker'.shutdown_requested
          /\ worker'.pc = "loop"
          /\ worker'.fetch = "disabled"
    /\ (worker.pc = "loop" /\ worker.shutdown_requested
            /\ worker.current_job = None /\ worker' # worker) =>
          /\ worker'.pc = "done"
          /\ worker'.result = "ok"
          /\ ~worker'.forced
          /\ processing' = processing
          /\ tasks' = tasks

C20_IdlePlace ==
    (worker.pc = "loop" /\ worker.shutdown_requested /\ worker.current_job = None)
        => worker.fetch = "disabled"

C20_IdleShutdown == [](C20_IdlePlace) /\ [][C20_SignalStep]_vars

C20_Witness ==
    /\ worker.pc = "done"
    /\ worker.result = "ok"
    /\ tasks = <<>>
    /\ signals.sent = 1
    /\ queues[QUEUE_READY] # <<>>

\* ---- what the claims about the heartbeat and the join speak about ----
\* The execution the loop holds the handle of has not finished.
JobInFlight ==
    worker.current_job # None /\ ~is_finished(tasks[worker.current_job[1]])

\* The worker leaves select! by the fetch branch: neither a signal nor the
\* tick was consumed.
FetchBranchTaken ==
    /\ worker.pc = "select"
    /\ worker'.pc # "select"
    /\ timer' = timer
    /\ signals' = signals

HeartbeatBranchTaken == worker.pc = "select" /\ timer.pending /\ ~timer'.pending

\* C21: the heartbeat branch goes before the fetch branch: with a tick
\* pending the fetch branch is never the one taken, whatever the fetch has
\* ready, so every tick is answered by the heartbeat branch also while the
\* ready list is not empty.
C21_TickStep ==
    /\ FetchBranchTaken => ~timer.pending
    /\ (worker.pc = "select" /\ timer.pending /\ worker'.pc # "select")
           => (HeartbeatBranchTaken \/ signals' # signals)
    /\ HeartbeatBranchTaken => (tasks' = tasks /\ processing' = processing)

C21_HeartbeatBeforeFetch == [][C21_TickStep]_vars

\* The tick was taken while the fetch had moved an id and the ready list
\* still held another: the id stays on the processing list with no execution.
C21_Witness ==
    /\ worker.pc = "loop"
    /\ worker.result = "none"
    /\ signals.sent = 0
    /\ timer.ticks = 1
    /\ ~timer.pending
    /\ processing # <<>>
    /\ tasks = <<>>
    /\ queues[QUEUE_READY] # <<>>

\* C22: with a job in flight the loop is never held: at the head of a turn it
\* goes on without waiting for the job, and in select! a pending tick is
\* answered (after a pending signal), the job being left as it is.
C22_LoopGoesOn ==
    (JobInFlight /\ timer.pending /\ Running) =>
        \/ worker.pc = "loop" /\ ENABLED LoopTop
        \/ worker.pc = "select"
             /\ ENABLED (SelectSigterm \/ SelectSigint \/ SelectHeartbeat)

C22_HeartbeatStep ==
    (JobInFlight /\ HeartbeatBranchTaken) =>
        /\ tasks' = tasks
        /\ worker'.current_job = worker.current_job
        /\ worker'.pc \in {"loop", "done"}

C22_HeartbeatWhileInFlight == [](C22_LoopGoesOn) /\ [][C22_HeartbeatStep]_vars

\* Two ticks arrived and were answered while one job was in flight.
C22_Witness ==
    /\ Running
    /\ JobInFlight
    /\ timer.since = 2
    /\ ~timer.pending

\* C23: a heartbeat or a fetch that fails ends Worker::run with that error,
\* and after the return the loop sends no heartbeat, moves no id and spawns
\* no execution.
C23_ErrReturns == worker.result = "err" => worker.pc = "done"

C23_ReturnStep ==
    /\ (worker'.result = "err" /\ worker.result # "err") =>
           \/ worker.pc = "start"
           \/ worker.pc = "select" /\ (timer.pending \/ worker.fetch # "disabled")
    /\ worker.pc = "done" =>
           /\ worker' = worker
           /\ timer' = timer
           /\ Len(tasks') = Len(tasks)
           /\ Len(processing') <= Len(processing)
           /\ queues'[QUEUE_READY] = queues[QUEUE_READY]
                \/ Len(queues'[QUEUE_READY]) > Len(queues[QUEUE_READY])

C23_FailureIsFatal == [](C23_ErrReturns) /\ [][C23_ReturnStep]_vars

\* The fetch failed after the id was moved: run has returned the error, no
\* execution was spawned, and the ready list still holds a job.
C23_Witness ==
    /\ worker.pc = "done"
    /\ worker.result = "err"
    /\ timer.ticks = 0
    /\ processing # <<>>
    /\ tasks = <<>>
    /\ queues[QUEUE_READY] # <<>>

\* C24: the head of every turn goes on without waiting; when the execution
\* in flight has finished it is joined, a panic is logged, and the worker is
\* idle again and still running: it enters select! and, unless a shutdown
\* was requested, fetches the next job.
C24_CheckNeverBlocks == worker.pc = "loop" => ENABLED LoopTop

C24_JoinStep ==
    (/\ worker.pc = "loop"
     /\ worker.current_job # None
     /\ is_finished(tasks[worker.current_job[1]])
     /\ worker' # worker)
        => /\ worker'.pc = "select"
           /\ worker'.result = "none"
           /\ worker'.current_job = None
           /\ tasks[worker.current_job[1]].pc = "panicked" => worker'.panic_logged
           /\ (~worker.shutdown_requested /\ ~HigherReady)
                  => worker'.fetch = "brpoplpush"

C24_PanicIsNotFatal == [](C24_CheckNeverBlocks) /\ [][C24_JoinStep]_vars

\* After a panicked execution was joined, a further job was fetched and spawned.
C24_Witness ==
    /\ Len(tasks) = 2
    /\ tasks[1].pc = "panicked"
    /\ worker.panic_logged
    /\ worker.current_job = Some(2)

\* ---- what the claims about the executor speak about ----
\* The k-th run of the sandbox is the run of the k-th task of the plan: a
\* turn of the loop that runs no sandbox returns from execute_plan.
RunOf(k) == sandbox_log[k]

FailedRuns(kinds) == {k \in 1..Len(sandbox_log) : RunOf(k).kind \in kinds}

\* C25: execute_plan runs the tasks in list order, stops after the first
\* task that did not succeed, and returns the results of exactly the tasks it
\* ran; the success of the plan is the conjunction of theirs.
C25_InOrderPrefix ==
    LET r == exec.task_results
        n == Len(r)
    IN  /\ n <= Len(plan)
        /\ Len(sandbox_log) = n
        /\ \A k \in 1..n : r[k].task_number = plan[k].task_number
        /\ \A k \in 1..n : k < n => r[k].success
        /\ exec.result = "ok" =>
             /\ exec.plan_result.task_results = r
             /\ n < Len(plan) => (n > 0 /\ ~r[n].success)
             /\ exec.plan_result.success = (\A k \in 1..n : r[k].success)

C25_Witness ==
    /\ exec.result = "ok"
    /\ Len(plan) = 3
    /\ Len(exec.plan_result.task_results) = 2
    /\ ~exec.plan_result.success

\* C26: a task that names an upstream task which has already run is run in
\* the sandbox with the captured stdout of that task as its input.
C26_UpstreamOutputDelivered ==
    \A k \in 1..Len(sandbox_log) :
        LET from == plan[k].input_from_task
        IN  (from # None /\ from[1] < k /\ from[1] <= Len(exec.task_results)) =>
                RunOf(k).stdin = Some(exec.task_results[from[1]].stdout)

C29_UnspawnableIsErr ==
    (exec.pc = "done" /\ \E k \in 1..Len(sandbox_log) : RunOf(k).command = "nonexistent")
        => (exec.result = "err" /\ exec.plan_result = NoResult)

\* C30: execute_task refuses an empty command before a sandbox is made or
\* run, and execute_plan returns that Err with no PlanResult.
C30_EmptyStep ==
    (/\ exec.pc = "loop"
     /\ exec.i <= Len(plan)
     /\ plan[exec.i].command = ""
     /\ exec' # exec)
        => /\ exec'.pc = "done"
           /\ exec'.result = "err"
           /\ exec'.plan_result = NoResult
           /\ sandbox_log' = sandbox_log

C30_NoEmptyRun ==
    /\ \A k \in 1..Len(sandbox_log) : RunOf(k).command # ""
    /\ exec.result = "err" => exec.plan_result = NoResult

C30_EmptyCommandIsErr == [](C30_NoEmptyRun) /\ [][C30_EmptyStep]_vars

C30_Witness ==
    /\ exec.result = "err"
    /\ Len(sandbox_log) = 2
    /\ plan[3].command = ""

\* ---- what the claims about the client speak about ----
\* C31: an error reply is returned as an error that wraps its line, a bulk
\* reply gives its payload, of exactly the declared length, a simple string
\* gives its trimmed text, and a reply with any other first byte is an error.
C31_ReplyParsing ==
    parsed # NoParse =>
        CASE reply.kind = "error" ->
                 parsed = ClientErr("AGQ Error", <<"-">> \o trim_end(reply.payload))
          [] reply.kind = "bulk" ->
                 parsed = ClientOk(reply.payload)
          [] reply.kind = "simple" ->
                 parsed = ClientOk(trim(reply.payload))
          [] OTHER ->
                 starts_with(reply.bytes, "$") \/ (parsed.err /\ parsed.kind # "AGQ Error")

\* C32: a job written by save_job and read back by get_job is the job that
\* was written, field for field.
C32_RoundTrip == job_out # NoJob => job_out = job_in

C32_Witness ==
    /\ job_out # NoJob
    /\ job_in.status = "Completed"
    /\ job_in.dependencies # {}
    /\ job_in.dependents # {}
    /\ job_in.completed_at # None
    /\ job_in.exit_code = None
    /\ job_in.tags # <<>>

\* ---- what the last claims about the orchestrator and the worker speak about ----
\* The ids the worker has taken from the ready list.
Popped ==
    {processing[i] : i \in 1..Len(processing)} \cup {tasks[h].job_id : h \in 1..Len(tasks)}

BatchOf(call) == {call.jobs[n].id : n \in 1..Len(call.jobs)}

\* C33: submit_jobs pushes the id of a job of the batch only when every job
\* of the batch has been written, so every job a worker has popped has all
\* its dependents in storage when its result is served.
C33_PushStep ==
    \A c \in Slots :
        (calls[c].op = "submit_jobs" /\ calls'[c] # calls[c] /\ queues' # queues)
            => \A id \in BatchOf(calls[c]) : Persisted(store, id)

C33_DependentsPersisted ==
    \A id \in Popped :
        Persisted(store, id) /\ \A d \in from_json(store[id]).dependents : Persisted(store, d)

C33_TwoPhaseSubmit == [](C33_DependentsPersisted) /\ [][C33_PushStep]_vars

\* The result of a popped job is being served and its dependent was found,
\* while the batch was of more than one job.
C33_Witness ==
    \E c \in Slots :
        /\ calls[c].op = "complete_job"
        /\ calls[c].dependent # NoJob
        /\ calls[c].job_id \in Popped

\* C34: when complete_job calls on different dependencies of the same
\* dependent run at the same time, the id of the dependent is pushed onto a
\* ready queue at most once.
C34_PushedAtMostOnce ==
    \A id \in JobIds :
        (Persisted(store, id) /\ Cardinality(DepsIn(store, id)) >= 2)
            => TimesQueued(queues, id) <= 1

\* C35: when the dependencies of a Pending job are completed by complete_job
\* calls running at the same time, one of the calls finds all of them
\* Completed and enqueues the job: once the calls have returned, a job whose
\* dependencies are all Completed is not Pending, and if it is Ready its id
\* has been pushed.
C35_NoLostWakeup ==
    Quiescent =>
        \A id \in JobIds :
            (/\ Persisted(store, id)
             /\ DepsIn(store, id) # {}
             /\ \A d \in DepsIn(store, id) : StatusIn(store, d) = "Completed")
                => /\ StatusIn(store, id) # "Pending"
                   /\ StatusIn(store, id) = "Ready" => TimesQueued(queues, id) >= 1

\* Both dependencies of job 3 were completed by calls that overlapped: each
\* of them enqueued it.
C35_Witness ==
    /\ Quiescent
    /\ Persisted(store, 3)
    /\ DepsIn(store, 3) = {1, 2}
    /\ StatusIn(store, 1) = "Completed"
    /\ StatusIn(store, 2) = "Completed"
    /\ StatusIn(store, 3) = "Ready"
    /\ TimesQueued(queues, 3) = 2

\* C36: no work is lost at the worker.  Every id that fetch_job moved from the
\* ready list to the processing list is handed to a spawned execution, also
\* when a heartbeat tick or a signal becomes ready while fetch_job is
\* suspended: an id on the processing list belongs to an execution or to the
\* fetch in progress, unless the loop has ended with an error.
C36_NoWorkLost ==
    worker.result # "err" =>
        \A n \in 1..Len(processing) :
            \/ \E h \in 1..Len(tasks) : tasks[h].job_id = processing[n]
            \/ worker.fetch = "job_get" /\ worker.job_id_raw = processing[n]

\* C37: every id that enqueue_job has pushed, on queue:default or on
\* queue:gpu, is eventually popped by a worker that runs and is not asked to
\* shut down: an id on a ready queue leads to the id being taken by the
\* worker, unless the worker has ended.
C37_EventuallyPopped ==
    \A id \in JobIds :
        (TimesQueued(queues, id) >= 1) ~> (id \in Popped \/ worker.pc = "done")

\* C38: for every job the worker executes, handle_task_execution posts exactly
\* one result, with status "completed" exactly when the execution succeeded
\* and "failed" otherwise, also when execute_task returned an error; the post
\* is what starts complete_job or fail_job for that job, and no step of the
\* worker writes to the job records.
C38_StatusOfOutcome ==
    \A h \in 1..Len(tasks) :
        tasks[h].outcome # "none" =>
            /\ tasks[h].status = "completed" <=> tasks[h].outcome = "success"
            /\ tasks[h].status = "failed" <=> tasks[h].outcome \in {"failure", "error"}

C38_OnePost ==
    \A h \in 1..Len(tasks) :
        /\ tasks[h].posts <= 1
        /\ tasks[h].outcome = "none" => tasks[h].posts = 0
        /\ tasks[h].pc \in {"post_wait", "lrem", "finished"} => tasks[h].posts = 1
        /\ tasks[h].posted => tasks[h].posts = 1

C38_PostStep ==
    \A h \in 1..Len(tasks) :
        (tasks'[h].posts # tasks[h].posts /\ tasks'[h].pc = "post_wait")
            => \E c \in Slots :
                  /\ calls[c] = Idle
                  /\ calls'[c].job_id = tasks[h].job_id
                  /\ calls'[c].op = IF tasks[h].outcome = "success"
                                    THEN "complete_job" ELSE "fail_job"

C38_StoreStep ==
    store' # store =>
        /\ \E c \in Slots : calls[c] # Idle /\ Acts(c)
        /\ tasks' = tasks
        /\ worker' = worker

C38_OneResultPerJob ==
    [](C38_StatusOfOutcome /\ C38_OnePost) /\ [][C38_PostStep /\ C38_StoreStep]_vars

C38_Witness ==
    \E h \in 1..Len(tasks) :
        /\ tasks[h].outcome = "error"
        /\ tasks[h].status = "failed"
        /\ tasks[h].posts = 1
        /\ tasks[h].posted
        /\ tasks[h].pc = "finished"
        /\ StatusIn(store, tasks[h].job_id) = "Failed"

\* Two stored records agree on every field outside the given ones.
SameExcept(a, b, fields) == \A f \in DOMAIN a \ fields : a[f] = b[f]

\* C39: frame of the orchestrator.  The save of complete_job and of fail_job
\* changes only status, completed_at and exit_code of the target job; the
\* save of enqueue_job changes only status of the job it enqueues; and no
\* step of any operation changes dependencies, dependents, tags, command,
\* args, plan_id or task_number of a job that is in storage.
C39_TerminalSaveStep ==
    \A c \in Slots :
        (calls[c].op \in {"complete_job", "fail_job"} /\ calls[c].pc = "save_job" /\ Acts(c))
            => \A id \in JobIds :
                  store'[id] # store[id]
                      => /\ id = calls[c].job_id
                         /\ Persisted(store, id) /\ Persisted(store', id)
                         /\ SameExcept(store[id], store'[id],
                                       {"status", "completed_at", "exit_code"})

C39_EnqueueSaveStep ==
    \A c \in Slots :
        (calls[c].pc = "enqueue_save" /\ Acts(c))
            => \A id \in JobIds :
                  store'[id] # store[id]
                      => /\ id = calls[c].enq.id
                         /\ Persisted(store, id) /\ Persisted(store', id)
                         /\ SameExcept(store[id], store'[id], {"status"})

C39_ImmutableStep ==
    \A id \in JobIds :
        Persisted(store, id)
            => /\ Persisted(store', id)
               /\ \A f \in {"dependencies", "dependents", "tags", "command", "args",
                             "plan_id", "task_number"} : store'[id][f] = store[id][f]

C39_Frame == [][C39_TerminalSaveStep /\ C39_EnqueueSaveStep /\ C39_ImmutableStep]_vars

C39_Witness ==
    /\ Quiescent
    /\ Persisted(store, 1) /\ Persisted(store, 2) /\ Persisted(store, 3)
    /\ StatusIn(store, 1) = "Completed"
    /\ StatusIn(store, 2) = "Failed"
    /\ StatusIn(store, 3) = "Ready"
    /\ DepsIn(store, 3) = {1}
    /\ TimesQueued(queues, 3) = 1

====
